---- MODULE Spec2Model ----
(***************************************************************************)
(* Model of twitch_oauth2's user tokens (src/src/tokens/user_token.rs):    *)
(* the UserToken aggregate with its local expiry computation and refresh,  *)
(* the authorization-code flow builder (UserTokenBuilder) and the implicit *)
(* flow builder (ImplicitUserTokenBuilder).                                *)
(*                                                                         *)
(* Option<T> is modelled as a sequence of length at most one: None is <<>> *)
(* and Some(x) is <<x>>.  Durations and instants are whole clock ticks.    *)
(* The HTTP client is the environment: each request the code sends is      *)
(* appended to `sent`, and each awaited response is a separate step whose  *)
(* outcome is chosen nondeterministically.                                 *)
(***************************************************************************)
EXTENDS Integers, Sequences, FiniteSets, TLC

\* ---------------------------------------------------------------- bounds
\* Largest value of the process clock.
MaxTime == 4
\* Largest finite lifetime (expires_in) a caller or a response supplies.
MaxLifetime == 3
\* Number of nonces CsrfToken::new_random() can hand out in one run.
MaxNonces == 2
\* Longest scope list a builder holds.
MaxScopes == 2

\* ------------------------------------------------------------ input sets
AccessTokens == {"AT1", "AT2"}
RefreshTokens == {"RT1", "RT2"}
ClientSecrets == {"S1"}
ClientIds == {"C1"}
UserNames == {"u"}
UserIds == {"42"}
Scopes == {"read:x", "write:y"}
Codes == {"code1", "code2"}
RedirectUrls == {"https://app.example/cb"}
ErrorStrings == {"access_denied"}
ErrorDescriptions == {"The user denied you access"}

\* CsrfToken::new_random(): the i-th nonce of the run; nonces are distinct.
new_random(i) == "n" \o ToString(i)

\* Values a caller passes as a CSRF token or as the callback `state`: every
\* nonce of the run and one value that is no nonce.
CsrfValues == {new_random(i) : i \in 1..MaxNonces} \cup {"forged"}

\* ---------------------------------------------------------------- Option
None == <<>>
Some(x) == <<x>>
is_some(o) == o # <<>>
is_none(o) == o = <<>>
unwrap(o) == o[1]
Option(S) == {None} \cup {Some(x) : x \in S}

\* --------------------------------------------------------------- Duration
\* std::time::Duration::new(u64::MAX, 1_000_000_000 - 1): the largest
\* Duration, here the largest integer of the model's integer width.
DurationMax == 2147483647

\* A subtraction that does not check for underflow.
checked_sub_unchecked(a, b) == Some(a - b)

\* Duration::checked_sub: None when the subtrahend exceeds the minuend.
checked_sub(a, b) == IF b > a THEN None ELSE Some(a - b)

\* Option<Duration>::unwrap_or_default: Duration::default() is zero.
unwrap_or_default(o) == IF is_some(o) THEN unwrap(o) ELSE 0

Max(a, b) == IF a >= b THEN a ELSE b

VARIABLES
    now,        \* the process clock read by Instant::now() / elapsed()
    tok,        \* Option<UserToken>: the token object of the run
    cb,         \* the UserTokenBuilder (authorization-code flow)
    cb_moved,   \* the UserTokenBuilder was consumed by get_user_token(self)
    cb_url,     \* Option: the URL returned by the last code-flow generate_url
    cb_csrf_set,\* set_csrf was called after the last code-flow generate_url
    ib,         \* the ImplicitUserTokenBuilder
    ib_moved,   \* the ImplicitUserTokenBuilder was consumed
    ib_url,     \* Option: the (url, csrf) returned by the last implicit generate_url
    next_nonce, \* the next value CsrfToken::new_random() returns
    call,       \* the async call in flight or last completed
    sent        \* the requests the current/last call handed to the HTTP client

vars == <<now, tok, cb, cb_moved, cb_url, cb_csrf_set, ib, ib_moved, ib_url, next_nonce, call, sent>>

codeVars == <<cb, cb_moved, cb_url, cb_csrf_set>>
implVars == <<ib, ib_moved, ib_url>>

\* ------------------------------------------------------------- UserToken
\* A construction that never sets the never-expiring flag.
from_existing_unchecked_no_flag(access_token, refresh_token, client_id, client_secret, login, user_id, scopes, expires_in, instant) ==
    [ access_token   |-> access_token,
      client_id      |-> client_id,
      client_secret  |-> client_secret,
      login          |-> login,
      user_id        |-> user_id,
      refresh_token  |-> refresh_token,
      expires_in     |-> IF is_some(expires_in) THEN unwrap(expires_in) ELSE DurationMax,
      struct_created |-> instant,
      scopes         |-> IF is_some(scopes) THEN unwrap(scopes) ELSE <<>>,
      never_expiring |-> FALSE ]

\* UserToken::from_existing_unchecked
from_existing_unchecked(access_token, refresh_token, client_id, client_secret, login, user_id, scopes, expires_in, instant) ==
    [ access_token   |-> access_token,
      client_id      |-> client_id,
      client_secret  |-> client_secret,
      login          |-> login,
      user_id        |-> user_id,
      refresh_token  |-> refresh_token,
      expires_in     |-> IF is_some(expires_in) THEN unwrap(expires_in) ELSE DurationMax,
      struct_created |-> instant,
      scopes         |-> IF is_some(scopes) THEN unwrap(scopes) ELSE <<>>,
      never_expiring |-> is_none(expires_in) ]

\* Instant::elapsed for the instant `created`, read at clock value `t`.
elapsed(created, t) == t - created

\* <UserToken as TwitchToken>::expires_in, read at clock value `t`.
expires_in(token, t) ==
    IF ~token.never_expiring
    THEN unwrap_or_default(checked_sub(token.expires_in, elapsed(token.struct_created, t)))
    ELSE DurationMax

\* ------------------------------------------------------------ call record
\* The operation in flight or last completed; one async call is in flight
\* at a time.  `before` is the token as it was
\* when the call started, `response` the token response received so far,
\* `done_at` the clock value at which the call returned.
NoCall ==
    [ op |-> "none", pc |-> "idle", result |-> "none", args |-> <<>>,
      before |-> None, response |-> None, detail |-> <<>>, done_at |-> 0 ]

Idle == call.pc \in {"idle", "done"}

Returned(c, result, t) == [c EXCEPT !.pc = "done", !.result = result, !.done_at = t]

\* A run about a token alone: no builder was constructed.
InitToken ==
    /\ now = 0
    /\ tok = None
    /\ cb = None /\ cb_moved = FALSE /\ cb_url = None /\ cb_csrf_set = FALSE
    /\ ib = None /\ ib_moved = FALSE /\ ib_url = None
    /\ next_nonce = 1
    /\ call = NoCall
    /\ sent = <<>>

\* The process clock advances.
Tick ==
    /\ now < MaxTime
    /\ now' = now + 1
    /\ UNCHANGED <<tok, cb, cb_moved, cb_url, cb_csrf_set, ib, ib_moved, ib_url, next_nonce, call, sent>>

\* A caller builds the token with UserToken::from_existing_unchecked.
FromExistingUnchecked ==
    /\ Idle
    /\ tok = None
    /\ \E access_token \in AccessTokens, refresh_token \in Option(RefreshTokens),
          client_id \in ClientIds, client_secret \in Option(ClientSecrets),
          login \in UserNames, user_id \in UserIds,
          scopes \in Option({<<"s1">>}), lifetime \in Option(0..MaxLifetime) :
        /\ tok' = Some(from_existing_unchecked(access_token, refresh_token, client_id,
                           client_secret, login, user_id, scopes, lifetime, now))
        /\ call' = [NoCall EXCEPT !.op = "from_existing_unchecked", !.pc = "done",
                                  !.result = "Ok", !.args = <<lifetime>>, !.done_at = now]
    /\ sent' = <<>>
    /\ UNCHANGED <<now, cb, cb_moved, cb_url, cb_csrf_set, ib, ib_moved, ib_url, next_nonce>>

\* UserToken::set_secret
set_secret(token, secret) == [token EXCEPT !.client_secret = secret]

SetSecret ==
    /\ Idle
    /\ is_some(tok)
    /\ \E secret \in Option(ClientSecrets) :
        /\ tok' = Some(set_secret(unwrap(tok), secret))
        /\ call' = [NoCall EXCEPT !.op = "set_secret", !.pc = "done", !.result = "Ok",
                                  !.args = <<secret>>, !.before = tok, !.done_at = now]
    /\ sent' = <<>>
    /\ UNCHANGED <<now, codeVars, implVars, next_nonce>>

\* The ways a request to the HTTP client fails: the transport, or the parsing
\* of the response.
RequestErrors == {"RequestError", "RequestParseError"}

\* The request RefreshToken::refresh_token sends.
RefreshRequest(refresh_token, client_id, client_secret) ==
    [ kind |-> "refresh", grant_type |-> "refresh_token", refresh_token |-> refresh_token,
      client_id |-> client_id, client_secret |-> client_secret ]

\* A refresh that does not look at the client secret.
refresh_token_begin_no_secret_check(token) ==
    IF is_some(token.refresh_token)
    THEN [ outcome  |-> "await",
           token    |-> [token EXCEPT !.refresh_token = None],
           requests |-> <<RefreshRequest(unwrap(token.refresh_token), token.client_id,
                                         IF is_some(token.client_secret)
                                         THEN unwrap(token.client_secret) ELSE "")>> ]
    ELSE [ outcome |-> "NoRefreshToken", token |-> token, requests |-> <<>> ]

\* A refresh that looks for the refresh token before the client secret.
refresh_token_begin_token_first(token) ==
    IF is_some(token.refresh_token)
    THEN IF is_some(token.client_secret)
         THEN [ outcome  |-> "await",
                token    |-> [token EXCEPT !.refresh_token = None],
                requests |-> <<RefreshRequest(unwrap(token.refresh_token), token.client_id,
                                              unwrap(token.client_secret))>> ]
         ELSE [ outcome |-> "NoClientSecretFound", token |-> token, requests |-> <<>> ]
    ELSE [ outcome |-> "NoRefreshToken", token |-> token, requests |-> <<>> ]

\* <UserToken as TwitchToken>::refresh_token up to its await: the checks of
\* the client secret and of the refresh token (Option::take), and the
\* request handed to the HTTP client.  `outcome` is "await" when the request
\* was sent, else the error returned.
refresh_token_begin(token) ==
    IF is_some(token.client_secret)
    THEN IF is_some(token.refresh_token)
         THEN [ outcome  |-> "await",
                token    |-> [token EXCEPT !.refresh_token = None],
                requests |-> <<RefreshRequest(unwrap(token.refresh_token), token.client_id,
                                              unwrap(token.client_secret))>> ]
         ELSE [ outcome |-> "NoRefreshToken", token |-> token, requests |-> <<>> ]
    ELSE [ outcome |-> "NoClientSecretFound", token |-> token, requests |-> <<>> ]

\* A refresh that does not store the refresh token of the response.
refresh_token_finish_drop_refresh(token, access_token, expires, refresh_token) ==
    [token EXCEPT !.access_token = access_token,
                  !.expires_in = expires]

\* A refresh that makes the token an expiring one.
refresh_token_finish_clear_flag(token, access_token, expires, refresh_token) ==
    [token EXCEPT !.access_token = access_token,
                  !.expires_in = expires,
                  !.refresh_token = refresh_token,
                  !.never_expiring = FALSE]

\* <UserToken as TwitchToken>::refresh_token after a successful response:
\* the three assignments.
refresh_token_finish(token, access_token, expires, refresh_token) ==
    [token EXCEPT !.access_token = access_token,
                  !.expires_in = expires,
                  !.refresh_token = refresh_token]

RefreshStart ==
    /\ Idle
    /\ is_some(tok)
    /\ LET r == refresh_token_begin(unwrap(tok))
           started == [NoCall EXCEPT !.op = "refresh", !.before = tok]
       IN  /\ tok' = Some(r.token)
           /\ sent' = r.requests
           /\ call' = IF r.outcome = "await"
                      THEN [started EXCEPT !.pc = "await_refresh"]
                      ELSE Returned(started, r.outcome, now)
    /\ UNCHANGED <<now, codeVars, implVars, next_nonce>>

\* The refresh response arrives: an error is returned by `?`, a success is
\* assigned to the token.
RefreshResponse ==
    /\ call.op = "refresh"
    /\ call.pc = "await_refresh"
    /\ \/ \E err \in RequestErrors :
            /\ call' = Returned(call, err, now)
            /\ tok' = tok
       \/ \E access_token \in AccessTokens, expires \in 0..MaxLifetime,
             refresh_token \in Option(RefreshTokens) :
            /\ tok' = Some(refresh_token_finish(unwrap(tok), access_token, expires,
                                                refresh_token))
            /\ call' = [Returned(call, "Ok", now) EXCEPT
                            !.response = Some([ access_token  |-> access_token,
                                                expires_in    |-> expires,
                                                refresh_token |-> refresh_token ])]
    /\ UNCHANGED <<now, codeVars, implVars, next_nonce, sent>>

NextToken ==
    \/ Tick
    \/ FromExistingUnchecked
    \/ SetSecret
    \/ RefreshStart
    \/ RefreshResponse

\* Option<String>::unwrap_or_default: the empty string for None.
unwrap_or_default_str(o) == IF is_some(o) THEN unwrap(o) ELSE ""

\* ------------------------------------------------- Result and responses
Ok(v) == [ok |-> TRUE, val |-> v]
Err(e) == [ok |-> FALSE, val |-> e]

\* A construction that does not require the user id of the validation.
new_skip_user_id(access_token, refresh_token, validated, client_secret, instant) ==
    IF is_none(validated.login) THEN Err("NoLogin")
    ELSE Ok(from_existing_unchecked(access_token, refresh_token, validated.client_id,
                                    client_secret, unwrap(validated.login),
                                    unwrap_or_default_str(validated.user_id),
                                    validated.scopes, validated.expires_in, instant))

\* A construction that does not require the login of the validation.
new_skip_login(access_token, refresh_token, validated, client_secret, instant) ==
    IF is_none(validated.user_id) THEN Err("NoLogin")
    ELSE Ok(from_existing_unchecked(access_token, refresh_token, validated.client_id,
                                    client_secret, unwrap_or_default_str(validated.login),
                                    unwrap(validated.user_id), validated.scopes,
                                    validated.expires_in, instant))

\* A construction that takes no scopes from the validation.
new_without_scopes(access_token, refresh_token, validated, client_secret, instant) ==
    IF is_none(validated.login) THEN Err("NoLogin")
    ELSE IF is_none(validated.user_id) THEN Err("NoLogin")
    ELSE Ok(from_existing_unchecked(access_token, refresh_token, validated.client_id,
                                    client_secret, unwrap(validated.login),
                                    unwrap(validated.user_id), None,
                                    validated.expires_in, instant))

\* UserToken::new: the token of a token response and its validation.
new(access_token, refresh_token, validated, client_secret, instant) ==
    IF is_none(validated.login) THEN Err("NoLogin")
    ELSE IF is_none(validated.user_id) THEN Err("NoLogin")
    ELSE Ok(from_existing_unchecked(access_token, refresh_token, validated.client_id,
                                    client_secret, unwrap(validated.login),
                                    unwrap(validated.user_id), validated.scopes,
                                    validated.expires_in, instant))

\* A from_response that leaves the refresh token of the response out.
from_response_drop_refresh(response, validated, client_secret, instant) ==
    new(response.access_token, None, validated, client_secret, instant)

\* A from_response that leaves the client secret out.
from_response_drop_secret(response, validated, client_secret, instant) ==
    new(response.access_token, response.refresh_token, validated, None, instant)

\* UserToken::from_response
from_response(response, validated, client_secret, instant) ==
    new(response.access_token, response.refresh_token, validated, client_secret, instant)

\* The token responses (TwitchTokenResponse) the provider answers with.
TokenResponses ==
    [ access_token : {"AT1"}, refresh_token : Option({"RT1"}),
      expires_in : {Some(MaxLifetime)}, scope : {<<"read:x">>} ]

\* The validation results (ValidatedToken) the provider answers with.
ValidatedTokens ==
    [ client_id : ClientIds, login : Option(UserNames), user_id : Option(UserIds),
      scopes : {Some(<<"read:x">>)}, expires_in : {Some(MaxLifetime)} ]

\* The request AccessToken::validate_token sends.
ValidateRequest(access_token) == [ kind |-> "validate", access_token |-> access_token ]

\* The ways AccessToken::validate_token fails.
ValidateErrors == {"ValidationError::NotAuthorized", "ValidationError::Request"}


\* ------------------------------------------------------ UserTokenBuilder
RECURSIVE join(_, _)
\* [Scope]::join(sep)
join(scopes, sep) ==
    IF scopes = <<>> THEN ""
    ELSE IF Len(scopes) = 1 THEN scopes[1]
    ELSE scopes[1] \o sep \o join(Tail(scopes), sep)

\* The scope lists a caller passes to set_scopes.
ScopeLists == {<<>>, <<"read:x", "write:y">>}

\* UserTokenBuilder::new; `nonce` is the value CsrfToken::new_random() returns.
UserTokenBuilder_new(client_id, client_secret, redirect_url, nonce) ==
    [ scopes        |-> <<>>,
      csrf          |-> Some(nonce),
      force_verify  |-> FALSE,
      redirect_url  |-> redirect_url,
      client_id     |-> client_id,
      client_secret |-> client_secret ]

\* UserTokenBuilder::set_scopes
UserTokenBuilder_set_scopes(b, scopes) == [b EXCEPT !.scopes = scopes]
\* UserTokenBuilder::add_scope
UserTokenBuilder_add_scope(b, scope) == [b EXCEPT !.scopes = Append(@, scope)]
\* UserTokenBuilder::force_verify
UserTokenBuilder_force_verify(b, flag) == [b EXCEPT !.force_verify = flag]
\* UserTokenBuilder::set_csrf
UserTokenBuilder_set_csrf(b, csrf) == [b EXCEPT !.csrf = csrf]

\* A generate_url that joins the scopes with commas.
UserTokenBuilder_generate_url_comma(b) ==
    [ base  |-> "AUTH_URL",
      query |-> <<  <<"response_type", "code">>,
                    <<"client_id", b.client_id>>,
                    <<"redirect_uri", b.redirect_url>> >>
                \o (IF is_some(b.csrf) THEN << <<"state", unwrap(b.csrf)>> >> ELSE <<>>)
                \o (IF b.scopes # <<>> THEN << <<"scope", join(b.scopes, ",")>> >> ELSE <<>>)
                \o (IF b.force_verify THEN << <<"force_verify", "true">> >> ELSE <<>>) ]

\* UserTokenBuilder::generate_url: the query pairs of the returned URL, in
\* the order they are appended (values as query_pairs() decodes them).
UserTokenBuilder_generate_url(b) ==
    [ base  |-> "AUTH_URL",
      query |-> <<  <<"response_type", "code">>,
                    <<"client_id", b.client_id>>,
                    <<"redirect_uri", b.redirect_url>> >>
                \o (IF is_some(b.csrf) THEN << <<"state", unwrap(b.csrf)>> >> ELSE <<>>)
                \o (IF b.scopes # <<>> THEN << <<"scope", join(b.scopes, " ")>> >> ELSE <<>>)
                \o (IF b.force_verify THEN << <<"force_verify", "true">> >> ELSE <<>>) ]

\* A check with the comparison inverted.
UserTokenBuilder_csrf_is_valid_inverted(b, csrf) ==
    IF is_some(b.csrf) THEN unwrap(b.csrf) # csrf ELSE TRUE

\* A check that accepts every state.
UserTokenBuilder_csrf_is_valid_accept_all(b, csrf) == TRUE

\* A check that fails closed when no CSRF token is stored.
UserTokenBuilder_csrf_is_valid_fail_closed(b, csrf) ==
    IF is_some(b.csrf) THEN unwrap(b.csrf) = csrf ELSE FALSE

\* UserTokenBuilder::csrf_is_valid
UserTokenBuilder_csrf_is_valid(b, csrf) ==
    IF is_some(b.csrf) THEN unwrap(b.csrf) = csrf ELSE TRUE

\* UserTokenBuilder::get_user_token_request
UserTokenBuilder_get_user_token_request(b, code) ==
    [ kind |-> "token", grant_type |-> "authorization_code", client_id |-> b.client_id,
      client_secret |-> b.client_secret, code |-> code, redirect_uri |-> b.redirect_url ]

\* The values of the query pairs of `url` whose key is `key`, in order.
QueryValues(url, key) ==
    LET idx == {i \in 1..Len(url.query) : url.query[i][1] = key}
        RECURSIVE pick(_)
        pick(i) == IF i > Len(url.query) THEN <<>>
                   ELSE (IF i \in idx THEN <<url.query[i][2]>> ELSE <<>>) \o pick(i + 1)
    IN  pick(1)

\* A run of the authorization-code flow: the builder was just constructed.
InitCode ==
    /\ now = 0
    /\ tok = None
    /\ \E client_id \in ClientIds, client_secret \in ClientSecrets,
          redirect_url \in RedirectUrls :
        cb = Some(UserTokenBuilder_new(client_id, client_secret, redirect_url, new_random(1)))
    /\ cb_moved = FALSE /\ cb_url = None /\ cb_csrf_set = FALSE
    /\ ib = None /\ ib_moved = FALSE /\ ib_url = None
    /\ next_nonce = 2
    /\ call = NoCall
    /\ sent = <<>>

\* A builder that stays usable after get_user_token took it.
CodeBuilderLive_after_move == is_some(cb)

\* The caller still owns the builder: get_user_token(self) has not moved it.
CodeBuilderLive == is_some(cb) /\ ~cb_moved

CodeSetScopes ==
    /\ CodeBuilderLive
    /\ \E scopes \in ScopeLists : cb' = Some(UserTokenBuilder_set_scopes(unwrap(cb), scopes))
    /\ UNCHANGED <<now, tok, cb_moved, cb_url, cb_csrf_set, implVars, next_nonce, call, sent>>

CodeAddScope ==
    /\ CodeBuilderLive
    /\ Len(unwrap(cb).scopes) < MaxScopes
    /\ \E scope \in Scopes : cb' = Some(UserTokenBuilder_add_scope(unwrap(cb), scope))
    /\ UNCHANGED <<now, tok, cb_moved, cb_url, cb_csrf_set, implVars, next_nonce, call, sent>>

CodeForceVerify ==
    /\ CodeBuilderLive
    /\ \E flag \in BOOLEAN : cb' = Some(UserTokenBuilder_force_verify(unwrap(cb), flag))
    /\ UNCHANGED <<now, tok, cb_moved, cb_url, cb_csrf_set, implVars, next_nonce, call, sent>>

CodeSetCsrf ==
    /\ CodeBuilderLive
    /\ \E csrf \in Option(CsrfValues) : cb' = Some(UserTokenBuilder_set_csrf(unwrap(cb), csrf))
    /\ cb_csrf_set' = is_some(cb_url)
    /\ UNCHANGED <<now, tok, cb_moved, cb_url, implVars, next_nonce, call, sent>>

\* A generate_url that stores a fresh nonce, as the implicit-flow one does.
CodeGenerateUrl_fresh_nonce ==
    /\ CodeBuilderLive
    /\ next_nonce <= MaxNonces
    /\ LET b == UserTokenBuilder_set_csrf(unwrap(cb), Some(new_random(next_nonce)))
       IN  /\ cb' = Some(b)
           /\ cb_url' = Some(UserTokenBuilder_generate_url(b))
    /\ next_nonce' = next_nonce + 1
    /\ cb_csrf_set' = FALSE
    /\ UNCHANGED <<now, tok, cb_moved, implVars, call, sent>>

CodeGenerateUrl ==
    /\ CodeBuilderLive
    /\ cb_url' = Some(UserTokenBuilder_generate_url(unwrap(cb)))
    /\ cb_csrf_set' = FALSE
    /\ UNCHANGED <<now, tok, cb, cb_moved, implVars, next_nonce, call, sent>>

\* UserTokenBuilder::get_user_token up to its first await: the builder is
\* moved into the call, the CSRF check, and the token request.
CodeExchangeStart ==
    /\ Idle
    /\ CodeBuilderLive
    /\ cb_moved' = TRUE
    /\ \E state \in CsrfValues, code \in Codes :
        LET started == [NoCall EXCEPT !.op = "code_exchange", !.args = <<state, code>>]
        IN  IF ~UserTokenBuilder_csrf_is_valid(unwrap(cb), state)
            THEN /\ call' = Returned(started, "StateMismatch", now)
                 /\ sent' = <<>>
            ELSE /\ call' = [started EXCEPT !.pc = "await_token"]
                 /\ sent' = <<UserTokenBuilder_get_user_token_request(unwrap(cb), code)>>
    /\ UNCHANGED <<now, tok, cb, cb_url, cb_csrf_set, implVars, next_nonce>>

\* A token step that sends the token request a second time after a failure.
CodeExchangeTokenResponse_retry ==
    /\ call.op = "code_exchange"
    /\ call.pc = "await_token"
    /\ \/ \E err \in RequestErrors :
            IF Len(sent) < 2
            THEN /\ call' = call
                 /\ sent' = Append(sent, sent[1])
            ELSE /\ call' = Returned(call, err, now)
                 /\ sent' = sent
       \/ \E response \in TokenResponses :
            /\ call' = [call EXCEPT !.pc = "await_validate", !.response = Some(response)]
            /\ sent' = Append(sent, ValidateRequest(response.access_token))
    /\ UNCHANGED <<now, tok, codeVars, implVars, next_nonce>>

\* The token response arrives; on success the access token is sent to
\* validation.
CodeExchangeTokenResponse ==
    /\ call.op = "code_exchange"
    /\ call.pc = "await_token"
    /\ \/ \E err \in RequestErrors :
            /\ call' = Returned(call, err, now)
            /\ sent' = sent
       \/ \E response \in TokenResponses :
            /\ call' = [call EXCEPT !.pc = "await_validate", !.response = Some(response)]
            /\ sent' = Append(sent, ValidateRequest(response.access_token))
    /\ UNCHANGED <<now, tok, codeVars, implVars, next_nonce>>

\* The validation response arrives; UserToken::from_response builds the
\* token with the builder's client secret.
CodeExchangeValidateResponse ==
    /\ call.op = "code_exchange"
    /\ call.pc = "await_validate"
    /\ \/ \E err \in ValidateErrors :
            /\ call' = Returned(call, err, now)
            /\ tok' = tok
       \/ \E validated \in ValidatedTokens :
            LET res == from_response(unwrap(call.response), validated,
                                     Some(unwrap(cb).client_secret), now)
            IN  IF res.ok
                THEN /\ tok' = Some(res.val)
                     /\ call' = [Returned(call, "Ok", now) EXCEPT !.detail = <<validated>>]
                ELSE /\ tok' = tok
                     /\ call' = Returned(call, "ValidationError::" \o res.val, now)
    /\ UNCHANGED <<now, codeVars, implVars, next_nonce, sent>>

NextCode ==
    \/ CodeSetScopes
    \/ CodeAddScope
    \/ CodeForceVerify
    \/ CodeSetCsrf
    \/ CodeGenerateUrl
    \/ CodeExchangeStart
    \/ CodeExchangeTokenResponse
    \/ CodeExchangeValidateResponse

\* ---------------------------------------------- ImplicitUserTokenBuilder
\* A construction that already holds a nonce, as the code-flow builder's does.
ImplicitUserTokenBuilder_new_with_csrf(client_id, redirect_url) ==
    [ scopes       |-> <<>>,
      redirect_url |-> redirect_url,
      csrf         |-> Some(new_random(1)),
      force_verify |-> FALSE,
      client_id    |-> client_id ]

\* ImplicitUserTokenBuilder::new
ImplicitUserTokenBuilder_new(client_id, redirect_url) ==
    [ scopes       |-> <<>>,
      redirect_url |-> redirect_url,
      csrf         |-> None,
      force_verify |-> FALSE,
      client_id    |-> client_id ]

\* ImplicitUserTokenBuilder::set_scopes
ImplicitUserTokenBuilder_set_scopes(b, scopes) == [b EXCEPT !.scopes = scopes]
\* ImplicitUserTokenBuilder::add_scope
ImplicitUserTokenBuilder_add_scope(b, scope) == [b EXCEPT !.scopes = Append(@, scope)]
\* ImplicitUserTokenBuilder::force_verify
ImplicitUserTokenBuilder_force_verify(b, flag) == [b EXCEPT !.force_verify = flag]

\* A generate_url that keeps the nonce of the first call in the builder.
ImplicitUserTokenBuilder_generate_url_keep_first(b, nonce) ==
    [ builder |-> IF is_some(b.csrf) THEN b ELSE [b EXCEPT !.csrf = Some(nonce)],
      url     |-> [ base  |-> "AUTH_URL",
                    query |-> <<  <<"response_type", "token">>,
                                  <<"client_id", b.client_id>>,
                                  <<"redirect_uri", b.redirect_url>>,
                                  <<"state", nonce>> >>
                              \o (IF b.scopes # <<>>
                                  THEN << <<"scope", join(b.scopes, " ")>> >> ELSE <<>>)
                              \o (IF b.force_verify
                                  THEN << <<"force_verify", "true">> >> ELSE <<>>) ],
      csrf    |-> nonce ]

\* A generate_url that embeds and returns the nonce without storing it.
ImplicitUserTokenBuilder_generate_url_not_stored(b, nonce) ==
    [ builder |-> b,
      url     |-> [ base  |-> "AUTH_URL",
                    query |-> <<  <<"response_type", "token">>,
                                  <<"client_id", b.client_id>>,
                                  <<"redirect_uri", b.redirect_url>>,
                                  <<"state", nonce>> >>
                              \o (IF b.scopes # <<>>
                                  THEN << <<"scope", join(b.scopes, " ")>> >> ELSE <<>>)
                              \o (IF b.force_verify
                                  THEN << <<"force_verify", "true">> >> ELSE <<>>) ],
      csrf    |-> nonce ]

\* ImplicitUserTokenBuilder::generate_url: the builder after the call, the
\* URL and the nonce returned; `nonce` is what CsrfToken::new_random() returns.
ImplicitUserTokenBuilder_generate_url(b, nonce) ==
    [ builder |-> [b EXCEPT !.csrf = Some(nonce)],
      url     |-> [ base  |-> "AUTH_URL",
                    query |-> <<  <<"response_type", "token">>,
                                  <<"client_id", b.client_id>>,
                                  <<"redirect_uri", b.redirect_url>>,
                                  <<"state", nonce>> >>
                              \o (IF b.scopes # <<>>
                                  THEN << <<"scope", join(b.scopes, " ")>> >> ELSE <<>>)
                              \o (IF b.force_verify
                                  THEN << <<"force_verify", "true">> >> ELSE <<>>) ],
      csrf    |-> nonce ]

\* A check that fails open when no nonce is stored, as the code-flow builder's does.
ImplicitUserTokenBuilder_csrf_is_valid_fail_open(b, csrf) ==
    IF is_some(b.csrf) THEN unwrap(b.csrf) = csrf ELSE TRUE

\* ImplicitUserTokenBuilder::csrf_is_valid
ImplicitUserTokenBuilder_csrf_is_valid(b, csrf) ==
    IF is_some(b.csrf) THEN unwrap(b.csrf) = csrf ELSE FALSE

\* The CSRF check of ImplicitUserTokenBuilder::get_user_token:
\* state.map(|s| self.csrf_is_valid(s)).unwrap_or_default()
ImplicitStateIsValid(b, state) ==
    IF is_some(state) THEN ImplicitUserTokenBuilder_csrf_is_valid(b, unwrap(state)) ELSE FALSE

\* A run of the implicit flow: the builder was just constructed.
InitImplicit ==
    /\ now = 0
    /\ tok = None
    /\ cb = None /\ cb_moved = FALSE /\ cb_url = None /\ cb_csrf_set = FALSE
    /\ \E client_id \in ClientIds, redirect_url \in RedirectUrls :
        ib = Some(ImplicitUserTokenBuilder_new(client_id, redirect_url))
    /\ ib_moved = FALSE /\ ib_url = None
    /\ next_nonce = 1
    /\ call = NoCall
    /\ sent = <<>>

ImplicitBuilderLive == is_some(ib) /\ ~ib_moved

ImplicitSetScopes ==
    /\ ImplicitBuilderLive
    /\ \E scopes \in ScopeLists :
        ib' = Some(ImplicitUserTokenBuilder_set_scopes(unwrap(ib), scopes))
    /\ UNCHANGED <<now, tok, codeVars, ib_moved, ib_url, next_nonce, call, sent>>

ImplicitAddScope ==
    /\ ImplicitBuilderLive
    /\ Len(unwrap(ib).scopes) < MaxScopes
    /\ \E scope \in Scopes : ib' = Some(ImplicitUserTokenBuilder_add_scope(unwrap(ib), scope))
    /\ UNCHANGED <<now, tok, codeVars, ib_moved, ib_url, next_nonce, call, sent>>

ImplicitForceVerify ==
    /\ ImplicitBuilderLive
    /\ \E flag \in BOOLEAN :
        ib' = Some(ImplicitUserTokenBuilder_force_verify(unwrap(ib), flag))
    /\ UNCHANGED <<now, tok, codeVars, ib_moved, ib_url, next_nonce, call, sent>>

ImplicitGenerateUrl ==
    /\ ImplicitBuilderLive
    /\ next_nonce <= MaxNonces
    /\ LET r == ImplicitUserTokenBuilder_generate_url(unwrap(ib), new_random(next_nonce))
       IN  /\ ib' = Some(r.builder)
           /\ ib_url' = Some([url |-> r.url, csrf |-> r.csrf])
    /\ next_nonce' = next_nonce + 1
    /\ UNCHANGED <<now, tok, codeVars, ib_moved, call, sent>>

\* An exchange that validates the access token whenever one is present.
ImplicitExchangeStart_token_wins ==
    /\ Idle
    /\ ImplicitBuilderLive
    /\ ib_moved' = TRUE
    /\ \E state \in Option(CsrfValues), access_token \in Option(AccessTokens),
          error \in Option(ErrorStrings), error_description \in Option(ErrorDescriptions) :
        LET started == [NoCall EXCEPT !.op = "implicit_exchange",
                            !.args = <<state, access_token, error, error_description>>]
        IN  IF ~ImplicitStateIsValid(unwrap(ib), state)
            THEN /\ call' = Returned(started, "StateMismatch", now)
                 /\ sent' = <<>>
            ELSE IF is_some(access_token)
            THEN /\ call' = [started EXCEPT !.pc = "await_validate"]
                 /\ sent' = <<ValidateRequest(unwrap(access_token))>>
            ELSE /\ call' = [Returned(started, "TwitchError", now) EXCEPT
                                !.detail = <<error, error_description>>]
                 /\ sent' = <<>>
    /\ UNCHANGED <<now, tok, codeVars, ib, ib_url, next_nonce>>

\* ImplicitUserTokenBuilder::get_user_token up to its await: the builder is
\* moved into the call, the CSRF check, the match on the three inputs and,
\* in its first arm, the validation request of UserToken::from_existing.
ImplicitExchangeStart ==
    /\ Idle
    /\ ImplicitBuilderLive
    /\ ib_moved' = TRUE
    /\ \E state \in Option(CsrfValues), access_token \in Option(AccessTokens),
          error \in Option(ErrorStrings), error_description \in Option(ErrorDescriptions) :
        LET started == [NoCall EXCEPT !.op = "implicit_exchange",
                            !.args = <<state, access_token, error, error_description>>]
        IN  IF ~ImplicitStateIsValid(unwrap(ib), state)
            THEN /\ call' = Returned(started, "StateMismatch", now)
                 /\ sent' = <<>>
            ELSE IF is_some(access_token) /\ is_none(error) /\ is_none(error_description)
            THEN /\ call' = [started EXCEPT !.pc = "await_validate"]
                 /\ sent' = <<ValidateRequest(unwrap(access_token))>>
            ELSE /\ call' = [Returned(started, "TwitchError", now) EXCEPT
                                !.detail = <<error, error_description>>]
                 /\ sent' = <<>>
    /\ UNCHANGED <<now, tok, codeVars, ib, ib_url, next_nonce>>

\* The validation response arrives; UserToken::new builds the token without
\* refresh token and without client secret.
ImplicitExchangeValidateResponse ==
    /\ call.op = "implicit_exchange"
    /\ call.pc = "await_validate"
    /\ \/ \E err \in ValidateErrors :
            /\ call' = Returned(call, err, now)
            /\ tok' = tok
       \/ \E validated \in ValidatedTokens :
            LET res == new(unwrap(call.args[2]), None, validated, None, now)
            IN  IF res.ok
                THEN /\ tok' = Some(res.val)
                     /\ call' = [Returned(call, "Ok", now) EXCEPT !.detail = <<validated>>]
                ELSE /\ tok' = tok
                     /\ call' = Returned(call, "ValidationError::" \o res.val, now)
    /\ UNCHANGED <<now, codeVars, implVars, next_nonce, sent>>

NextImplicit ==
    \/ ImplicitSetScopes
    \/ ImplicitAddScope
    \/ ImplicitForceVerify
    \/ ImplicitGenerateUrl
    \/ ImplicitExchangeStart
    \/ ImplicitExchangeValidateResponse

\* ------------------------------------------- construction by the caller
\* The token responses a caller hands to UserToken::from_response.
CallerResponses ==
    [ access_token : AccessTokens, refresh_token : Option(RefreshTokens),
      expires_in : Option({MaxLifetime}), scope : {<<>>, <<"s1">>} ]

\* The validation results a caller hands to UserToken::from_response, and
\* those AccessToken::validate_token returns to UserToken::from_existing.
CallerValidated ==
    [ client_id : ClientIds, login : Option(UserNames), user_id : Option(UserIds),
      scopes : Option({<<"s1">>, <<"s2">>}), expires_in : Option({0, MaxLifetime}) ]

\* A caller builds the token with UserToken::from_response.  The
\* constructors read no state, so a run makes one construction call.
FromResponse ==
    /\ call.op = "none"
    /\ tok = None
    /\ \E response \in CallerResponses, validated \in CallerValidated,
          client_secret \in Option(ClientSecrets) :
        LET res == from_response(response, validated, client_secret, now)
            started == [NoCall EXCEPT !.op = "from_response",
                                      !.args = <<response, validated, client_secret>>]
        IN  IF res.ok
            THEN /\ tok' = Some(res.val)
                 /\ call' = Returned(started, "Ok", now)
            ELSE /\ tok' = tok
                 /\ call' = Returned(started, "ValidationError::" \o res.val, now)
    /\ sent' = <<>>
    /\ UNCHANGED <<now, codeVars, implVars, next_nonce>>

\* UserToken::from_existing up to its await: the validation request.
FromExistingStart ==
    /\ call.op = "none"
    /\ tok = None
    /\ \E access_token \in AccessTokens, refresh_token \in Option(RefreshTokens),
          client_secret \in Option(ClientSecrets) :
        /\ call' = [NoCall EXCEPT !.op = "from_existing", !.pc = "await_validate",
                                  !.args = <<access_token, refresh_token, client_secret>>]
        /\ sent' = <<ValidateRequest(access_token)>>
    /\ UNCHANGED <<now, tok, codeVars, implVars, next_nonce>>

\* The validation response arrives: an error is returned by `?`, a
\* validation is handed to UserToken::new.  `detail` keeps the validation.
FromExistingValidateResponse ==
    /\ call.op = "from_existing"
    /\ call.pc = "await_validate"
    /\ \/ \E err \in ValidateErrors :
            /\ call' = Returned(call, err, now)
            /\ tok' = tok
       \/ \E validated \in CallerValidated :
            LET res == new(call.args[1], call.args[2], validated, call.args[3], now)
            IN  IF res.ok
                THEN /\ tok' = Some(res.val)
                     /\ call' = [Returned(call, "Ok", now) EXCEPT !.detail = <<validated>>]
                ELSE /\ tok' = tok
                     /\ call' = [Returned(call, "ValidationError::" \o res.val, now)
                                    EXCEPT !.detail = <<validated>>]
    /\ UNCHANGED <<now, codeVars, implVars, next_nonce, sent>>

NextConstruct ==
    \/ Tick
    \/ FromResponse
    \/ FromExistingStart
    \/ FromExistingValidateResponse

\* ------------------------------------------------------- specifications
\* The token alone, with the clock.
SpecToken == InitToken /\ [][NextToken]_vars
\* The authorization-code flow.
SpecCode == InitCode /\ [][NextCode]_vars
\* The implicit flow.
SpecImplicit == InitImplicit /\ [][NextImplicit]_vars
\* The construction of a token from responses, with the clock.
SpecConstruct == InitToken /\ [][NextConstruct]_vars
\* Either flow.
\* A code-flow exchange and the life of the token it returns.
NextCodeRefresh ==
    \/ CodeGenerateUrl
    \/ CodeExchangeStart
    \/ CodeExchangeTokenResponse
    \/ CodeExchangeValidateResponse
    \/ SetSecret
    \/ RefreshStart
    \/ RefreshResponse

SpecCodeRefresh == InitCode /\ [][NextCodeRefresh]_vars

\* An implicit-flow exchange and the life of the token it returns.  No
\* refresh request is ever in flight here, so there is no response step.
NextImplicitRefresh ==
    \/ ImplicitGenerateUrl
    \/ ImplicitExchangeStart
    \/ ImplicitExchangeValidateResponse
    \/ SetSecret
    \/ RefreshStart

SpecImplicitRefresh == InitImplicit /\ [][NextImplicitRefresh]_vars

InitBuilders == InitCode \/ InitImplicit
NextBuilders == NextCode \/ NextImplicit
SpecBuilders == InitBuilders /\ [][NextBuilders]_vars

\* ---------------------------------------------------------------- claims
\* The `state` parameters of a URL, as an Option (a URL carries at most one).
UrlState(url) ==
    LET v == QueryValues(url, "state") IN IF v = <<>> THEN None ELSE Some(v[1])

\* C1: a code-flow exchange whose builder holds a CSRF nonce and whose
\* `state` differs from it has returned StateMismatch, has sent no request
\* (neither token exchange nor validation) and has produced no token,
\* whatever the code.
C1_StateMismatchSendsNothing ==
    (/\ call.op = "code_exchange"
     /\ is_some(unwrap(cb).csrf)
     /\ unwrap(unwrap(cb).csrf) # call.args[1])
    => (/\ call.pc = "done"
        /\ call.result = "StateMismatch"
        /\ sent = <<>>
        /\ tok = None)

\* C1 witness: an exchange with the second code was refused for a forged state.
C1_Witness ==
    /\ call.op = "code_exchange"
    /\ call.result = "StateMismatch"
    /\ is_some(unwrap(cb).csrf)
    /\ call.args = <<"forged", "code2">>
    /\ is_some(cb_url)

\* C2: an implicit-flow exchange whose `state` is absent, or differs from
\* the stored nonce, or meets a builder without nonce, has returned
\* StateMismatch and has sent no validation request, whatever the
\* access token, error and error description.
C2_ImplicitFailsClosed ==
    (/\ call.op = "implicit_exchange"
     /\ \/ is_none(call.args[1])
        \/ is_none(unwrap(ib).csrf)
        \/ unwrap(ib).csrf # call.args[1])
    => (/\ call.pc = "done"
        /\ call.result = "StateMismatch"
        /\ sent = <<>>
        /\ tok = None)

\* C2 witness: an exchange carrying a state and an access token was refused
\* because generate_url was never called.
C2_Witness ==
    /\ call.op = "implicit_exchange"
    /\ call.result = "StateMismatch"
    /\ ib_url = None
    /\ is_some(call.args[1])
    /\ is_some(call.args[2])
    /\ is_none(call.args[3])

\* C3: after any sequence of code-flow builder operations csrf_is_valid(x)
\* is true exactly when x is the stored CSRF token or none is stored.
C3_CodeCsrfIsValid ==
    is_some(cb) =>
        \A x \in CsrfValues :
            UserTokenBuilder_csrf_is_valid(unwrap(cb), x)
                <=> (unwrap(cb).csrf = Some(x) \/ unwrap(cb).csrf = None)

\* C3 witness: the CSRF token was disabled by set_csrf(None) after a URL
\* was generated with one, and every value is accepted.
C3_Witness ==
    /\ is_some(cb)
    /\ unwrap(cb).csrf = None
    /\ is_some(cb_url)
    /\ is_some(UrlState(unwrap(cb_url)))
    /\ \A x \in CsrfValues : UserTokenBuilder_csrf_is_valid(unwrap(cb), x)

\* C4: the implicit-flow csrf_is_valid(x) is false for every x as long as
\* generate_url was never called; after it, it is true exactly for the
\* stored nonce, which is the one the last generate_url returned.
C4_ImplicitCsrfIsValid ==
    is_some(ib) =>
        /\ ib_url = None =>
              \A x \in CsrfValues : ~ImplicitUserTokenBuilder_csrf_is_valid(unwrap(ib), x)
        /\ ib_url # None =>
              /\ unwrap(ib).csrf = Some(unwrap(ib_url).csrf)
              /\ \A x \in CsrfValues :
                    ImplicitUserTokenBuilder_csrf_is_valid(unwrap(ib), x)
                        <=> x = unwrap(ib_url).csrf

\* C4 witness: scopes and force_verify were set, no URL was generated yet.
C4_Witness ==
    /\ is_some(ib)
    /\ ~ib_moved
    /\ ib_url = None
    /\ unwrap(ib).scopes # <<>>
    /\ unwrap(ib).force_verify

\* C5 as stated: at every exchange that follows a generate_url, of either
\* builder, the nonce the callback `state` is compared with is the `state`
\* of the last URL the builder produced.
C5_CheckedNonceIsUrlNonce ==
    /\ (call.op = "code_exchange" /\ is_some(cb_url))
          => UrlState(unwrap(cb_url)) = unwrap(cb).csrf
    /\ (call.op = "implicit_exchange" /\ is_some(ib_url))
          => UrlState(unwrap(ib_url).url) = unwrap(ib).csrf

\* C5 amended: the implicit-flow exchange compares `state` with the nonce
\* that the most recent generate_url generated, returned and embedded in its
\* URL, generated before the exchange; the code-flow exchange compares it
\* with the CSRF token the builder stores, which is the `state` of the last
\* URL produced unless set_csrf was called after that generate_url.
C5_CheckedNonceIsUrlNonceUnlessSet ==
    /\ (call.op = "code_exchange" /\ is_some(cb_url) /\ ~cb_csrf_set)
          => UrlState(unwrap(cb_url)) = unwrap(cb).csrf
    /\ (call.op = "implicit_exchange" /\ is_some(ib_url))
          => /\ UrlState(unwrap(ib_url).url) = unwrap(ib).csrf
             /\ unwrap(ib).csrf = Some(unwrap(ib_url).csrf)
             /\ \E i \in 1..(next_nonce - 1) : unwrap(ib_url).csrf = new_random(i)
    /\ (call.op = "implicit_exchange" /\ ib_url = None) => unwrap(ib).csrf = None

\* C5 witness: an implicit-flow exchange passed the check against the nonce
\* of the second URL generated.
C5_Witness ==
    /\ call.op = "implicit_exchange"
    /\ call.result # "StateMismatch"
    /\ is_some(ib_url)
    /\ call.args[1] = Some(new_random(2))
    /\ UrlState(unwrap(ib_url).url) = call.args[1]

\* C6: a refresh on a token without client secret has returned
\* NoClientSecretFound, whether or not a refresh token is held; on a token
\* with a client secret and without refresh token it has returned
\* NoRefreshToken; in both cases no request was sent and the token is as it
\* was before the call.
C6_RefreshPreconditions ==
    (call.op = "refresh") =>
        LET before == unwrap(call.before)
        IN  /\ is_none(before.client_secret) =>
                  /\ call.pc = "done"
                  /\ call.result = "NoClientSecretFound"
                  /\ sent = <<>>
                  /\ tok = call.before
            /\ (is_some(before.client_secret) /\ is_none(before.refresh_token)) =>
                  /\ call.pc = "done"
                  /\ call.result = "NoRefreshToken"
                  /\ sent = <<>>
                  /\ tok = call.before

\* C6 witness: a token holding a refresh token and no client secret was
\* refused a refresh.
C6_Witness ==
    /\ call.op = "refresh"
    /\ call.result = "NoClientSecretFound"
    /\ is_some(unwrap(call.before).refresh_token)
    /\ tok = call.before

\* C7: after a successful refresh the access token, the lifetime and the
\* refresh token are those of the response (the refresh token possibly
\* absent), and login, user_id, scopes, client_id and client_secret are
\* those of the token before the call.
C7_RefreshFrame ==
    (call.op = "refresh" /\ call.result = "Ok") =>
        LET before == unwrap(call.before)
            response == unwrap(call.response)
            token == unwrap(tok)
        IN  /\ token.access_token = response.access_token
            /\ token.expires_in = response.expires_in
            /\ token.refresh_token = response.refresh_token
            /\ token.login = before.login
            /\ token.user_id = before.user_id
            /\ token.scopes = before.scopes
            /\ token.client_id = before.client_id
            /\ token.client_secret = before.client_secret

\* C7 witness: a refresh replaced the access token and brought a new
\* refresh token.
C7_Witness ==
    /\ call.op = "refresh"
    /\ call.result = "Ok"
    /\ unwrap(tok).access_token # unwrap(call.before).access_token
    /\ is_some(unwrap(tok).refresh_token)
    /\ unwrap(tok).refresh_token # unwrap(call.before).refresh_token

\* C8 as stated, for a token that is not never-expiring: after a successful
\* refresh whose response carries lifetime L, expires_in() is
\* max(0, L - d) at every time d after the refresh returned.
C8_LifetimeCountsFromRefresh ==
    (/\ call.op = "refresh"
     /\ call.result = "Ok"
     /\ ~unwrap(tok).never_expiring)
    => expires_in(unwrap(tok), now)
          = Max(0, unwrap(call.response).expires_in - (now - call.done_at))

\* The step is no part of a refresh.
NoRefreshStep == call'.op # "refresh"

\* C9: a token built with a lifetime stores it with its creation instant,
\* and both stay as they are while no refresh happens; expires_in() of a
\* token that is not never-expiring is max(0, lifetime - elapsed), never
\* below zero, and does not increase over a step that is no refresh.
C9_ExpiresInFloorsAtZero ==
    /\ [](is_some(tok) =>
            LET token == unwrap(tok)
            IN  /\ (call.op = "from_existing_unchecked" /\ is_some(call.args[1])) =>
                      /\ token.expires_in = unwrap(call.args[1])
                      /\ token.struct_created = call.done_at
                /\ ~token.never_expiring =>
                      /\ expires_in(token, now)
                            = Max(0, token.expires_in - (now - token.struct_created))
                      /\ expires_in(token, now) >= 0)
    /\ [][(is_some(tok) /\ ~unwrap(tok).never_expiring /\ NoRefreshStep) =>
            /\ is_some(tok')
            /\ unwrap(tok').expires_in = unwrap(tok).expires_in
            /\ unwrap(tok').struct_created = unwrap(tok).struct_created
            /\ expires_in(unwrap(tok'), now') <= expires_in(unwrap(tok), now)]_vars

\* C9 witness: more time has elapsed than the lifetime the token was built
\* with, and expires_in() is zero.
C9_Witness ==
    /\ is_some(tok)
    /\ call.op = "from_existing_unchecked"
    /\ ~unwrap(tok).never_expiring
    /\ unwrap(tok).expires_in > 0
    /\ now - unwrap(tok).struct_created > unwrap(tok).expires_in
    /\ expires_in(unwrap(tok), now) = 0

\* C10: a token built by from_existing_unchecked is never-expiring exactly
\* when no lifetime was given, and expires_in() of a never-expiring token is
\* the maximal Duration at every moment.
C10_NeverExpiring ==
    is_some(tok) =>
        /\ call.op = "from_existing_unchecked" =>
              (unwrap(tok).never_expiring <=> is_none(call.args[1]))
        /\ unwrap(tok).never_expiring => expires_in(unwrap(tok), now) = DurationMax

\* C10 witness: time has passed since a token was built without lifetime.
C10_Witness ==
    /\ is_some(tok)
    /\ call.op = "from_existing_unchecked"
    /\ is_none(call.args[1])
    /\ unwrap(tok).never_expiring
    /\ now > unwrap(tok).struct_created + 1
    /\ expires_in(unwrap(tok), now) = DurationMax

\* C11: a token built by from_response from a validation carrying login
\* and user id has the access token and the refresh token of the token
\* response, the login, user id and client id of the validation, and the
\* client secret supplied.
C11_FromResponseRoundTrip ==
    (/\ call.op = "from_response"
     /\ is_some(call.args[2].login)
     /\ is_some(call.args[2].user_id))
    => /\ call.result = "Ok"
       /\ is_some(tok)
       /\ unwrap(tok).access_token = call.args[1].access_token
       /\ unwrap(tok).refresh_token = call.args[1].refresh_token
       /\ unwrap(tok).login = unwrap(call.args[2].login)
       /\ unwrap(tok).user_id = unwrap(call.args[2].user_id)
       /\ unwrap(tok).client_id = call.args[2].client_id
       /\ unwrap(tok).client_secret = call.args[3]

\* C11 witness: the round trip of access token AT1, refresh token RT1,
\* login u and user id 42, with a client secret.
C11_Witness ==
    /\ call.op = "from_response"
    /\ call.result = "Ok"
    /\ is_some(tok)
    /\ unwrap(tok).access_token = "AT1"
    /\ unwrap(tok).refresh_token = Some("RT1")
    /\ unwrap(tok).login = "u"
    /\ unwrap(tok).user_id = "42"
    /\ is_some(unwrap(tok).client_secret)

\* C12 as stated: the scopes of a token built by from_response are the
\* scope list of the token response.
C12_ScopesAreResponseScopes ==
    (call.op = "from_response" /\ call.result = "Ok")
    => unwrap(tok).scopes = call.args[1].scope

\* C12 amended: the scopes of a token built by from_response are the scopes
\* the validation result lists, and none when it lists none; the scope
\* list of the token response is not used.
C12_ScopesAreValidatedScopes ==
    (call.op = "from_response" /\ call.result = "Ok")
    => unwrap(tok).scopes
          = (IF is_some(call.args[2].scopes) THEN unwrap(call.args[2].scopes) ELSE <<>>)

\* C12 witness: the response grants s1, the validation lists s2, and the
\* token reports s2.
C12_Witness ==
    /\ call.op = "from_response"
    /\ call.result = "Ok"
    /\ call.args[1].scope = <<"s1">>
    /\ call.args[2].scopes = Some(<<"s2">>)
    /\ unwrap(tok).scopes = <<"s2">>

\* C13: from_response (through new) has returned a validation error and
\* produced no token when the validation lacks the login or the user id,
\* and has succeeded with a token in every other case.
C13_NoLoginIsAnError ==
    (call.op = "from_response")
    => IF is_none(call.args[2].login) \/ is_none(call.args[2].user_id)
       THEN call.result = "ValidationError::NoLogin" /\ tok = None
       ELSE call.result = "Ok" /\ is_some(tok)

\* C13 witness: a validation with login and without user id was refused.
C13_Witness ==
    /\ call.op = "from_response"
    /\ call.result = "ValidationError::NoLogin"
    /\ is_some(call.args[2].login)
    /\ is_none(call.args[2].user_id)
    /\ tok = None

RECURSIVE SpaceJoined(_)
\* The scopes of a list in order, one space between two neighbours.
SpaceJoined(scopes) ==
    IF Len(scopes) = 0 THEN ""
    ELSE IF Len(scopes) = 1 THEN scopes[1]
    ELSE SpaceJoined(SubSeq(scopes, 1, Len(scopes) - 1)) \o " " \o scopes[Len(scopes)]

\* The query of `url` is what C14 says of the builder `b`.
CodeUrlMatchesBuilder(b, url) ==
    /\ QueryValues(url, "response_type") = <<"code">>
    /\ QueryValues(url, "client_id") = <<b.client_id>>
    /\ QueryValues(url, "redirect_uri") = <<b.redirect_url>>
    /\ QueryValues(url, "state") = (IF is_some(b.csrf) THEN <<unwrap(b.csrf)>> ELSE <<>>)
    /\ QueryValues(url, "scope")
          = (IF b.scopes # <<>> THEN <<SpaceJoined(b.scopes)>> ELSE <<>>)
    /\ QueryValues(url, "force_verify") = (IF b.force_verify THEN <<"true">> ELSE <<>>)
    /\ (b.scopes = <<"read:x", "write:y">>
            => QueryValues(url, "scope") = <<"read:x write:y">>)

\* C14: every URL a code-flow generate_url returns has response_type=code,
\* the client id and the redirect URI of the builder; a `state` exactly when
\* a CSRF token is stored, equal to it; a `scope` exactly when the scope
\* list is not empty, the scopes joined by single spaces in list order; and
\* force_verify=true exactly when force_verify is enabled.
C14_CodeUrlQuery ==
    [][(cb_url' # cb_url) => CodeUrlMatchesBuilder(unwrap(cb), unwrap(cb_url'))]_vars

\* C14 witness: the URL of a builder with scopes read:x and write:y,
\* force_verify and the nonce of its construction.
C14_Witness ==
    /\ is_some(cb_url)
    /\ QueryValues(unwrap(cb_url), "scope") = <<"read:x write:y">>
    /\ QueryValues(unwrap(cb_url), "force_verify") = <<"true">>
    /\ QueryValues(unwrap(cb_url), "state") = <<new_random(1)>>
    /\ unwrap(cb).csrf = Some(new_random(1))

\* C15: after every implicit-flow generate_url, and there may be several,
\* the nonce returned is a fresh one, is stored in the builder and is the
\* `state` of the returned URL; csrf_is_valid accepts it and rejects the
\* nonce of every earlier call.
C15_ImplicitFreshNonce ==
    is_some(ib_url) =>
        LET returned == unwrap(ib_url).csrf
        IN  /\ returned = new_random(next_nonce - 1)
            /\ unwrap(ib).csrf = Some(returned)
            /\ UrlState(unwrap(ib_url).url) = Some(returned)
            /\ ImplicitUserTokenBuilder_csrf_is_valid(unwrap(ib), returned)
            /\ \A i \in 1..(next_nonce - 2) :
                  /\ new_random(i) # returned
                  /\ ~ImplicitUserTokenBuilder_csrf_is_valid(unwrap(ib), new_random(i))

\* C15 witness: generate_url was called twice; the second nonce is
\* accepted and the first is not.
C15_Witness ==
    /\ is_some(ib_url)
    /\ ~ib_moved
    /\ next_nonce = 3
    /\ ImplicitUserTokenBuilder_csrf_is_valid(unwrap(ib), new_random(2))
    /\ ~ImplicitUserTokenBuilder_csrf_is_valid(unwrap(ib), new_random(1))

\* The token-exchange requests among the requests sent.
TokenRequests == SelectSeq(sent, LAMBDA r : r.kind = "token")

\* C16: once get_user_token was invoked on a code-flow builder, with
\* whatever result, the builder stays consumed and as it was, no URL is
\* generated from it, no second exchange starts once the first returned,
\* and at most one token-exchange request was sent.
C16_ExchangeConsumesBuilder ==
    /\ [](Len(TokenRequests) <= 1)
    /\ [](call.op = "code_exchange" => cb_moved)
    /\ [][cb_moved => (cb_moved' /\ cb' = cb /\ cb_url' = cb_url)]_vars
    /\ [][(cb_moved /\ call.pc = "done") => (call' = call /\ sent' = sent)]_vars

\* C16 witness: the exchange of a builder that had generated a URL failed
\* with StateMismatch and the builder is consumed.
C16_Witness ==
    /\ cb_moved
    /\ is_some(cb_url)
    /\ call.op = "code_exchange"
    /\ call.pc = "done"
    /\ call.result = "StateMismatch"

\* C17 as stated: get_user_token on a code-flow builder on which
\* generate_url was never called does not send the token-exchange request.
C17_NoExchangeBeforeUrl ==
    (call.op = "code_exchange" /\ cb_url = None) => TokenRequests = <<>>

\* C17 amended: get_user_token does not depend on generate_url: called on a
\* builder on which generate_url was never called it sends the
\* token-exchange request exactly when the state passes the CSRF check
\* (the stored token equals it, or none is stored), as it does after
\* generate_url.
C17_ExchangeIgnoresUrlPhase ==
    (call.op = "code_exchange") =>
        LET passes == unwrap(cb).csrf = None \/ unwrap(cb).csrf = Some(call.args[1])
        IN  /\ passes => (Len(TokenRequests) = 1
                            /\ sent[1] = UserTokenBuilder_get_user_token_request(
                                            unwrap(cb), call.args[2]))
            /\ ~passes => (sent = <<>> /\ call.result = "StateMismatch")

\* C17 witness: an exchange on a builder that never generated a URL sent
\* its token-exchange request and produced a token.
C17_Witness ==
    /\ call.op = "code_exchange"
    /\ cb_url = None
    /\ Len(TokenRequests) = 1
    /\ call.result = "Ok"
    /\ is_some(tok)

\* C18: the token a successful code-flow exchange returns carries the
\* client secret of the builder and the refresh token of the exchange
\* response; the secret of the token changes only by set_secret, and a
\* refresh of a token that holds a secret never fails with
\* NoClientSecretFound: that failure needs a set_secret(None) before it.
C18_CodeTokenCanRefresh ==
    /\ []((call.op = "code_exchange" /\ call.result = "Ok") =>
            /\ is_some(tok)
            /\ unwrap(tok).client_secret = Some(unwrap(cb).client_secret)
            /\ unwrap(tok).refresh_token = unwrap(call.response).refresh_token)
    /\ [][(is_some(tok) /\ is_some(tok')
            /\ unwrap(tok').client_secret # unwrap(tok).client_secret)
          => call'.op = "set_secret"]_vars
    /\ [][(call'.op = "refresh" /\ call.op # "refresh"
            /\ call'.result = "NoClientSecretFound")
          => /\ unwrap(tok).client_secret = None
             /\ call.op = "set_secret"
             /\ call.args = <<None>>]_vars

\* C18 witness: the token of a code-flow exchange, still holding the
\* secret of the builder, was refreshed with success.
C18_Witness ==
    /\ cb_moved
    /\ call.op = "refresh"
    /\ call.result = "Ok"
    /\ is_some(call.before)
    /\ unwrap(call.before).client_secret = Some(unwrap(cb).client_secret)
    /\ is_some(unwrap(call.before).refresh_token)

\* C19: the token a successful implicit-flow exchange returns holds no
\* client secret and no refresh token; it never gets a refresh token, and
\* every refresh of it fails without a request, with NoClientSecretFound
\* as long as it holds no secret.
C19_ImplicitTokenCannotRefresh ==
    /\ (call.op = "implicit_exchange" /\ call.result = "Ok") =>
            /\ is_some(tok)
            /\ unwrap(tok).client_secret = None
            /\ unwrap(tok).refresh_token = None
    /\ is_some(tok) => unwrap(tok).refresh_token = None
    /\ call.op = "refresh" =>
            /\ call.pc = "done"
            /\ sent = <<>>
            /\ tok = call.before
            /\ call.result \in {"NoClientSecretFound", "NoRefreshToken"}
            /\ unwrap(call.before).client_secret = None
                  => call.result = "NoClientSecretFound"

\* C19 witness: the token of an implicit-flow exchange, never given a
\* secret, was refreshed and the refresh failed with NoClientSecretFound.
C19_Witness ==
    /\ ib_moved
    /\ call.op = "refresh"
    /\ call.result = "NoClientSecretFound"
    /\ is_some(tok)
    /\ unwrap(tok).client_secret = None
    /\ sent = <<>>

\* C20: from_existing sends exactly one validation request, for the access
\* token given; it returns a token only when validation succeeded with a
\* login and a user id, and that token wraps the access token given; a
\* rejected token, a transport error and a missing identity each return a
\* validation error and no token.
C20_FromExistingValidates ==
    call.op = "from_existing" =>
        /\ Len(sent) = 1
        /\ sent[1] = ValidateRequest(call.args[1])
        /\ call.pc # "done" => tok = None
        /\ call.pc = "done" =>
            /\ call.result \in {"Ok", "ValidationError::NoLogin"} \cup ValidateErrors
            /\ (call.result = "Ok") <=> is_some(tok)
            /\ call.result = "Ok" =>
                  /\ Len(call.detail) = 1
                  /\ is_some(call.detail[1].login)
                  /\ is_some(call.detail[1].user_id)
                  /\ unwrap(tok).access_token = call.args[1]
                  /\ unwrap(tok).login = unwrap(call.detail[1].login)
                  /\ unwrap(tok).user_id = unwrap(call.detail[1].user_id)
            /\ (call.result = "ValidationError::NoLogin") <=>
                  /\ Len(call.detail) = 1
                  /\ is_none(call.detail[1].login) \/ is_none(call.detail[1].user_id)

\* C20 witness: validation succeeded but returned a login and no user id,
\* and from_existing returned NoLogin and no token.
C20_Witness ==
    /\ call.op = "from_existing"
    /\ call.pc = "done"
    /\ call.result = "ValidationError::NoLogin"
    /\ is_some(call.detail[1].login)
    /\ is_none(call.detail[1].user_id)
    /\ tok = None

\* C21: in an implicit-flow exchange whose state passed the CSRF check, the
\* access token is sent to validation only when an access token is given
\* and error and error_description are both absent; every other combination
\* of the three returns TwitchError carrying the error and the description
\* as given, and no request is sent.
C21_ImplicitExchangeMatch ==
    (call.op = "implicit_exchange" /\ ImplicitStateIsValid(unwrap(ib), call.args[1])) =>
        LET access_token == call.args[2]
            error == call.args[3]
            error_description == call.args[4]
        IN  IF is_some(access_token) /\ is_none(error) /\ is_none(error_description)
            THEN /\ sent = <<ValidateRequest(unwrap(access_token))>>
                 /\ call.result # "TwitchError"
                 /\ call.result # "StateMismatch"
            ELSE /\ sent = <<>>
                 /\ call.pc = "done"
                 /\ call.result = "TwitchError"
                 /\ call.detail = <<error, error_description>>
                 /\ tok = None

\* C21 witness: a callback with a valid state, an access token and an error
\* but no description returned TwitchError with that error and sent nothing.
C21_Witness ==
    /\ call.op = "implicit_exchange"
    /\ ImplicitStateIsValid(unwrap(ib), call.args[1])
    /\ is_some(call.args[2])
    /\ is_some(call.args[3])
    /\ is_none(call.args[4])
    /\ call.result = "TwitchError"
    /\ call.detail = <<call.args[3], None>>
    /\ sent = <<>>

\* The requests of kind `kind` among the requests sent by the call.
RequestsOfKind(kind) == SelectSeq(sent, LAMBDA r : r.kind = kind)

\* C22: one code-flow exchange sends at most one token-exchange request and
\* at most one validation request, the validation request only once the
\* token response has arrived and parsed; one refresh sends at most one
\* refresh request; and the step in which a call fails sends nothing more
\* and returns that failure: a transport or parse failure of the token
\* request ends the exchange before any validation request, a validation
\* failure ends it without a token.
C22_NoRetryFixedOrder ==
    /\ [](/\ Len(RequestsOfKind("token")) <= 1
          /\ Len(RequestsOfKind("validate")) <= 1
          /\ Len(RequestsOfKind("refresh")) <= 1)
    /\ []((call.op = "code_exchange" /\ RequestsOfKind("validate") # <<>>) =>
             /\ is_some(call.response)
             /\ sent = << UserTokenBuilder_get_user_token_request(unwrap(cb), call.args[2]),
                          ValidateRequest(unwrap(call.response).access_token) >>)
    /\ []((call.op = "code_exchange" /\ call.pc = "done") =>
             /\ call.result \in RequestErrors => (Len(sent) = 1 /\ call.response = None)
             /\ call.result \in ValidateErrors \cup {"ValidationError::NoLogin"}
                   => (Len(sent) = 2 /\ tok = None)
             /\ call.result = "Ok" => Len(sent) = 2)
    /\ []((call.op = "refresh" /\ call.pc = "done" /\ call.result \in RequestErrors)
             => Len(sent) = 1)
    /\ [][(call.pc \notin {"idle", "done"} /\ call'.pc = "done" /\ call'.result # "Ok")
             => (sent' = sent /\ call'.op = call.op)]_vars
    /\ [][(call.pc \notin {"idle", "done"} /\ sent' # sent)
             => (call.pc = "await_token" /\ call'.pc = "await_validate"
                    /\ Len(sent') = Len(sent) + 1)]_vars

\* C22 witness: the token request of an exchange failed in transport and
\* the exchange returned that error having sent one request.
C22_Witness ==
    /\ call.op = "code_exchange"
    /\ call.pc = "done"
    /\ call.result = "RequestError"
    /\ Len(sent) = 1
    /\ sent[1].kind = "token"
    /\ tok = None

\* C23 as stated: after a refresh that did not complete with success the
\* access token, the refresh token and the lifetime of the token are those
\* it had before the call; a token that held a refresh token and a secret
\* still holds the refresh token after a transport or parse failure, so the
\* next refresh sends a request.
C23_FailedRefreshKeepsToken ==
    (call.op = "refresh" /\ call.pc = "done" /\ call.result # "Ok") =>
        LET before == unwrap(call.before)
            token == unwrap(tok)
        IN  /\ token.access_token = before.access_token
            /\ token.refresh_token = before.refresh_token
            /\ token.expires_in = before.expires_in
            /\ call.result \in RequestErrors
                  => refresh_token_begin(token).outcome = "await"

\* C24: the never-expiring flag of a token is set at construction and no
\* step of the token changes it: a token built without a lifetime reports
\* the maximal duration from expires_in() in every later state, also after
\* a successful refresh stored the finite lifetime of its response.
C24_NeverExpiringIsFixed ==
    /\ []((call.op = "from_existing_unchecked")
             => unwrap(tok).never_expiring = is_none(call.args[1]))
    /\ [][(is_some(tok) /\ is_some(tok'))
             => unwrap(tok').never_expiring = unwrap(tok).never_expiring]_vars
    /\ []((is_some(tok) /\ unwrap(tok).never_expiring)
             => expires_in(unwrap(tok), now) = DurationMax)
    /\ []((call.op = "refresh" /\ call.result = "Ok")
             => /\ unwrap(tok).never_expiring = unwrap(call.before).never_expiring
                /\ unwrap(tok).expires_in = unwrap(call.response).expires_in)

\* C24 witness: a token built without a lifetime was refreshed, stores the
\* finite lifetime of the response and still reports the maximal duration.
C24_Witness ==
    /\ call.op = "refresh"
    /\ call.result = "Ok"
    /\ unwrap(call.before).never_expiring
    /\ unwrap(tok).expires_in = 1
    /\ now > call.done_at + 1
    /\ expires_in(unwrap(tok), now) = DurationMax

\* C25: a code-flow builder holds the nonce of its construction; a step
\* that produces a new code-flow URL leaves the builder as it was, and the
\* URL is the one generate_url returns for that unchanged builder, so the
\* next call returns it again; only set_csrf changes the stored nonce, so
\* two successive URLs differ in `state` only if set_csrf was called between
\* them; an implicit-flow generate_url changes the nonce of its builder.
C25_CodeGenerateUrlIsPure ==
    /\ is_some(cb) => unwrap(cb).csrf = Some(new_random(1))
    /\ [][(is_some(cb) /\ cb_url' # cb_url)
             => /\ cb' = cb
                /\ cb_url' = Some(UserTokenBuilder_generate_url(unwrap(cb')))]_vars
    /\ [][(is_some(cb) /\ unwrap(cb').csrf # unwrap(cb).csrf)
             => /\ \E csrf \in Option(CsrfValues) :
                      cb' = Some(UserTokenBuilder_set_csrf(unwrap(cb), csrf))
                /\ cb_url' = cb_url]_vars
    /\ [][(is_some(cb_url) /\ is_some(cb_url')
              /\ UrlState(unwrap(cb_url')) # UrlState(unwrap(cb_url)))
             => cb_csrf_set]_vars
    /\ [][(is_some(ib) /\ ib_url' # ib_url)
             => unwrap(ib').csrf # unwrap(ib).csrf]_vars

\* C25 witness: a builder on which scopes were set and set_csrf was not
\* called has generated its URL; it holds the nonce of its construction and
\* generate_url returns this URL again.
C25_Witness ==
    /\ is_some(cb)
    /\ ~cb_moved
    /\ is_some(cb_url)
    /\ unwrap(cb).scopes # <<>>
    /\ unwrap(cb).csrf = Some(new_random(1))
    /\ cb_url = Some(UserTokenBuilder_generate_url(unwrap(cb)))
    /\ UrlState(unwrap(cb_url)) = Some(new_random(1))
====
